---- MODULE Spec2Model ----
(***************************************************************************)
(* Model of function_app.py: the three HTTP handlers (extract_kyc,         *)
(* compare_faces, compare_faces_compreface), the Azure Face helpers and    *)
(* the lazily initialised CompreFace verification handle.                  *)
(*                                                                         *)
(* Confidences and thresholds are integers counting 1e-5 (0.85 is 85000).  *)
(* A confidence stored in an outcome has gone through round(x, 4) and      *)
(* counts 1e-4 (0.85 is 8500).                                             *)
(***************************************************************************)
EXTENDS Integers, Sequences, FiniteSets, TLC

\* ---------------------------------------------------------------- bounds
\* Total number of entries a request carries over its three target channels.
MaxEntries == 2
\* Largest number of face rectangles the detection backend returns.
MaxFaces == 2
\* Number of concurrent callers of get_compreface_verification.
NCallers == 3

\* ------------------------------------------------------ program constants
\* req.form.get("threshold", 0.8), in units of 1e-5.
DefaultThreshold == 80000

\* ---------------------------------------------------------- input domains
\* Paths a face_paths array may name, and the ones present on disk.
Paths == {"p1", "p2", "p3"}
ExistingPaths == {"p1", "p2"}
\* cropped_faces form values: the empty string, a decodable base64 text and
\* one whose padding is wrong (base64.b64decode raises binascii.Error).
B64Values == {"", "b1", "bad"}
\* cropped_face_files parts; a werkzeug FileStorage is truthy iff it has a
\* filename, so the part with the empty filename is the empty file input.
UploadValues == {[filename |-> "u1.jpg", bytes |-> "u1"],
                 [filename |-> "u2.jpg", bytes |-> "u2"],
                 [filename |-> "", bytes |-> ""]}
\* threshold form values: absent, "0.9", and a text float() rejects.
ThresholdValues == {"absent", "0.9", "bad"}
\* Raw confidences a backend reports (1e-5 units): 0.79996 and 0.85.
RawConf == {79996, 85000}
\* Environment at import time: FACE_ENDPOINT and FACE_KEY (face), the
\* CompreFace SDK import (sdk) and COMPRE_FACE_API_KEY (key).
Configs == {[face |-> TRUE, sdk |-> TRUE, key |-> TRUE],
            [face |-> FALSE, sdk |-> TRUE, key |-> FALSE],
            [face |-> FALSE, sdk |-> FALSE, key |-> TRUE]}

SeqsUpTo(S, n) == UNION {[1..k -> S] : k \in 0..n}

FacePathsValues ==
    {[kind |-> k, items |-> <<>>] : k \in {"absent", "malformed", "scalar"}}
    \cup {[kind |-> "array", items |-> s] : s \in SeqsUpTo(Paths, MaxEntries) }

\* The target channels of one multipart request, MaxEntries entries in all.
TargetInputs ==
    UNION {UNION {
        {[face_paths |-> fp, cropped_faces |-> b, cropped_face_files |-> u] :
            u \in SeqsUpTo(UploadValues, MaxEntries - Len(fp.items) - Len(b))} :
        b \in SeqsUpTo(B64Values, MaxEntries - Len(fp.items))} :
        fp \in FacePathsValues}

Requests(route) ==
    {[route |-> route, reference_image |-> ref, threshold |-> th,
      face_paths |-> t.face_paths, cropped_faces |-> t.cropped_faces,
      cropped_face_files |-> t.cropped_face_files] :
        ref \in {"none", "ok", "undecodable"},
        th \in ThresholdValues,
        t \in TargetInputs}

NoRequest == [route |-> "none"]
NoResponse == [status |-> 0]

VARIABLES
    cfg,                    \* FACE_ENDPOINT/FACE_KEY, SDK, COMPRE_FACE_API_KEY
    COMPRE_VERIFICATION_SERVICE, \* the module global; 0 is None
    pc,                     \* position of the request being handled
    req,                    \* the request
    threshold,              \* parsed threshold (1e-5 units)
    ref_face_id,            \* faceId of the reference image
    cropped_faces_data,     \* resolved targets
    comparison_results,     \* outcomes appended so far
    calls,                  \* what the backend answered for each target
    temp_files_to_cleanup,  \* compare_faces_compreface's cleanup list
    ref_temp_path,          \* the staged reference file, <<>> before staging
    tempDir,                \* files present in compreface_temp
    created,                \* staging files this request has written
    uuid,                   \* source of fresh uuid4 names
    outputDir,              \* files present in output_faces
    faces,                  \* extract_kyc: rectangles returned by detection
    face_results,           \* extract_kyc: `results`, the manifest entries so far
    resp,                   \* the HTTP response
    cpc,                    \* get_compreface_verification: caller positions
    cnew,                   \* ... handle a caller's initializer returned
    cret,                   \* ... what each finished call returned
    handles,                \* ... number of handles the initializer created
    overlapped,             \* ... whether two calls were ever in progress at once
    remove_failed           \* whether os.remove raised during cleanup

vars == <<cfg, COMPRE_VERIFICATION_SERVICE, pc, req, threshold, ref_face_id,
          cropped_faces_data, comparison_results, calls,
          temp_files_to_cleanup, ref_temp_path, tempDir, created, uuid,
          outputDir, faces, face_results, resp, cpc, cnew, cret, handles,
          overlapped,
          remove_failed>>

raceVars == <<cpc, cnew, cret, overlapped>>
compareVars == <<threshold, ref_face_id, cropped_faces_data,
                 comparison_results, calls>>
stagingVars == <<temp_files_to_cleanup, ref_temp_path, tempDir, created, uuid,
                 remove_failed>>
extractVars == <<outputDir, faces, face_results>>

Callers == 1..NCallers

\* ------------------------------------------------------------- arithmetic
\* round-half-even of s/n, what round() does on a decimal tie.
RoundDiv(s, n) ==
    LET q == s \div n
        r == s % n
    IN  IF 2 * r < n THEN q
        ELSE IF 2 * r > n THEN q + 1
        ELSE IF q % 2 = 0 THEN q ELSE q + 1

\* round(confidence, 4): from 1e-5 units to 1e-4 units.
Round4(c) == RoundDiv(c, 10)

\* float(req.form.get("threshold", 0.8)); <<>> stands for ValueError.
ParseThreshold(text) ==
    IF text = "absent" THEN <<DefaultThreshold>>
    ELSE IF text = "0.9" THEN <<90000>>
    ELSE <<>>

RECURSIVE SumConfidence(_)
SumConfidence(rs) ==
    IF rs = <<>> THEN 0 ELSE Head(rs).confidence + SumConfidence(Tail(rs))

\* ------------------------------------------------------- Azure Face helpers
NoFace == "None"
FaceIds == {"faceA"}
\* What the detect endpoint answers: a non-200 status or a transport error,
\* an empty list, or a list whose first entry carries a faceId.
DetectAnswers == {"error", "empty"} \cup FaceIds

\* detect_face_id: None unless configured and the backend returned a face.
detect_face_id(answer) ==
    IF ~cfg.face THEN NoFace
    ELSE IF answer \in FaceIds THEN answer
    ELSE NoFace

\* What the verify endpoint answers; ok = FALSE is a non-200 status or a
\* transport error.
NoVerify == [ok |-> FALSE, isIdentical |-> FALSE, confidence |-> 0]
VerifyAnswers ==
    {NoVerify} \cup
    {[ok |-> TRUE, isIdentical |-> b, confidence |-> c] :
        b \in BOOLEAN, c \in RawConf}

\* verify_face_ids: the backend's JSON, or None (NoVerify).
verify_face_ids(answer) ==
    IF ~cfg.face THEN NoVerify
    ELSE IF answer.ok THEN answer
    ELSE NoVerify

\* ------------------------------------------------------------ InputResolver
\* Option 1: the face_paths loop. raised is the TypeError of iterating a JSON
\* value that is no array; json.JSONDecodeError is caught and leaves the
\* list as it is.
RECURSIVE AppendExisting(_, _)
AppendExisting(data, items) ==
    IF items = <<>> THEN data
    ELSE AppendExisting(
            IF Head(items) \in ExistingPaths
            THEN Append(data, [type |-> "path", value |-> Head(items)])
            ELSE data,
            Tail(items))

\* PathTargets without the except json.JSONDecodeError clause.
PathTargetsUncaught(data, fp) ==
    IF fp.kind = "absent" THEN [raised |-> FALSE, data |-> data]
    ELSE IF fp.kind \in {"malformed", "scalar"} THEN [raised |-> TRUE, data |-> data]
    ELSE [raised |-> FALSE, data |-> AppendExisting(data, fp.items)]

PathTargets(data, fp) ==
    IF fp.kind = "absent" THEN [raised |-> FALSE, data |-> data]
    ELSE IF fp.kind = "malformed" THEN [raised |-> FALSE, data |-> data]
    ELSE IF fp.kind = "scalar" THEN [raised |-> TRUE, data |-> data]
    ELSE [raised |-> FALSE, data |-> AppendExisting(data, fp.items)]

\* Option 2: the cropped_faces loop.
RECURSIVE Base64Targets(_, _)
Base64Targets(data, b64s) ==
    IF b64s = <<>> THEN data
    ELSE Base64Targets(
            IF Head(b64s) # ""
            THEN Append(data, [type |-> "base64", value |-> Head(b64s)])
            ELSE data,
            Tail(b64s))

\* Option 3: the cropped_face_files loop.
RECURSIVE UploadTargets(_, _)
UploadTargets(data, ups) ==
    IF ups = <<>> THEN data
    ELSE UploadTargets(
            IF Head(ups).filename # ""
            THEN Append(data, [type |-> "bytes", value |-> Head(ups).bytes])
            ELSE data,
            Tail(ups))

\* ResolveTargets with the upload loop run before the base64 loop.
ResolveTargetsUploadsFirst(r) ==
    LET p == PathTargets(<<>>, r.face_paths)
    IN  IF p.raised THEN p
        ELSE [raised |-> FALSE,
              data |-> Base64Targets(
                          UploadTargets(p.data, r.cropped_face_files),
                          r.cropped_faces)]

\* The three loops in the order the handlers run them.
ResolveTargets(r) ==
    LET p == PathTargets(<<>>, r.face_paths)
    IN  IF p.raised THEN p
        ELSE [raised |-> FALSE,
              data |-> UploadTargets(
                          Base64Targets(p.data, r.cropped_faces),
                          r.cropped_face_files)]

\* base64.b64decode raises on the wrongly padded text.
DecodeRaises(face_data) ==
    face_data.type = "base64" /\ face_data.value = "bad"

\* LoopDone for a loop that a failed target ends.
LoopDoneOnFailure(results, data) ==
    \/ Len(results) = Len(data)
    \/ results # <<>> /\ ~results[Len(results)].face_found

\* The for loops over cropped_faces_data end when every target has an outcome.
LoopDone(results, data) == Len(results) = Len(data)

\* ------------------------------------------------------ ComparisonAggregator
FoundOnly(rs) == SelectSeq(rs, LAMBDA r : r.face_found)

\* Aggregate with the average taken over every outcome.
AggregateOverAll(rs, total) ==
    LET valid == FoundOnly(rs)
    IN  [overall_match |->
            IF valid # <<>>
            THEN \E i \in 1..Len(valid) : valid[i].match
            ELSE FALSE,
         average_confidence |->
            IF valid # <<>>
            THEN RoundDiv(SumConfidence(rs), Len(rs))
            ELSE 0,
         summary |-> [total_faces |-> total,
                      faces_found |-> Len(valid),
                      matches |-> Len(SelectSeq(rs, LAMBDA r : r.match))]]

\* Aggregate with any() turned into all().
AggregateAllMatch(rs, total) ==
    LET valid == FoundOnly(rs)
    IN  [overall_match |->
            IF valid # <<>>
            THEN \A i \in 1..Len(valid) : valid[i].match
            ELSE FALSE,
         average_confidence |->
            IF valid # <<>>
            THEN RoundDiv(SumConfidence(valid), Len(valid))
            ELSE 0,
         summary |-> [total_faces |-> total,
                      faces_found |-> Len(valid),
                      matches |-> Len(SelectSeq(rs, LAMBDA r : r.match))]]

\* Aggregate with total_faces counting the found outcomes.
AggregateTotalFound(rs, total) ==
    LET valid == FoundOnly(rs)
    IN  [overall_match |->
            IF valid # <<>>
            THEN \E i \in 1..Len(valid) : valid[i].match
            ELSE FALSE,
         average_confidence |->
            IF valid # <<>>
            THEN RoundDiv(SumConfidence(valid), Len(valid))
            ELSE 0,
         summary |-> [total_faces |-> Len(valid),
                      faces_found |-> Len(valid),
                      matches |-> Len(SelectSeq(rs, LAMBDA r : r.match))]]

\* valid_comparisons, avg_confidence, any_match and the summary.
Aggregate(rs, total) ==
    LET valid == FoundOnly(rs)
    IN  [overall_match |->
            IF valid # <<>>
            THEN \E i \in 1..Len(valid) : valid[i].match
            ELSE FALSE,
         average_confidence |->
            IF valid # <<>>
            THEN RoundDiv(SumConfidence(valid), Len(valid))
            ELSE 0,
         summary |-> [total_faces |-> total,
                      faces_found |-> Len(valid),
                      matches |-> Len(SelectSeq(rs, LAMBDA r : r.match))]]

\* The 200 body of both comparison handlers.
ComparisonResponse(rs, total, th) ==
    LET a == Aggregate(rs, total)
    IN  [status |-> 200, body |-> "comparison",
         threshold |-> th,
         overall_match |-> a.overall_match,
         average_confidence |-> a.average_confidence,
         comparisons |-> rs,
         summary |-> a.summary]

ErrorResponse(status, body) == [status |-> status, body |-> body]

\* ------------------------------------------------------------ compare_faces
\* CloudMatch with the isIdentical conjunct lost.
CloudMatchConfidenceOnly(vr, th) == vr.confidence >= th

\* Line 368: a match needs isIdentical and the raw confidence at the threshold.
CloudMatch(vr, th) == vr.isIdentical /\ vr.confidence >= th

\* CloudOutcome with face_found taken from the verify verdict.
CloudOutcomeFoundIfIdentical(idx, face_data, fid, vr, th) ==
    IF DecodeRaises(face_data)
    THEN [face_index |-> idx, face_found |-> FALSE, match |-> FALSE,
          confidence |-> 0, error |-> "exception"]
    ELSE IF fid = NoFace
    THEN [face_index |-> idx, face_found |-> FALSE, match |-> FALSE,
          confidence |-> 0, error |-> "No face detected in target image"]
    ELSE IF ~vr.ok
    THEN [face_index |-> idx, face_found |-> TRUE, match |-> FALSE,
          confidence |-> 0, error |-> "Azure Face verify call failed"]
    ELSE [face_index |-> idx, face_found |-> vr.isIdentical,
          match |-> CloudMatch(vr, th),
          is_identical |-> vr.isIdentical,
          confidence |-> Round4(vr.confidence)]

\* The outcome of one pass through the loop body of compare_faces:
\* fid is what detect_face_id returned, vr what verify_face_ids returned.
CloudOutcome(idx, face_data, fid, vr, th) ==
    IF DecodeRaises(face_data)
    THEN [face_index |-> idx, face_found |-> FALSE, match |-> FALSE,
          confidence |-> 0, error |-> "exception"]
    ELSE IF fid = NoFace
    THEN [face_index |-> idx, face_found |-> FALSE, match |-> FALSE,
          confidence |-> 0, error |-> "No face detected in target image"]
    ELSE IF ~vr.ok
    THEN [face_index |-> idx, face_found |-> TRUE, match |-> FALSE,
          confidence |-> 0, error |-> "Azure Face verify call failed"]
    ELSE [face_index |-> idx, face_found |-> TRUE,
          match |-> CloudMatch(vr, th),
          is_identical |-> vr.isIdentical,
          confidence |-> Round4(vr.confidence)]

\* Lines 258-284: reference image, reference faceId, parameters.
compare_faces_Begin(r) ==
    /\ pc = "idle"
    /\ req' = r
    /\ \E answer \in DetectAnswers :
        LET fid == detect_face_id(answer)
            th == ParseThreshold(r.threshold)
        IN  IF r.reference_image = "none"
            THEN /\ resp' = ErrorResponse(400, "Missing 'reference_image' in form-data")
                 /\ pc' = "done"
                 /\ UNCHANGED <<threshold, ref_face_id>>
            ELSE IF r.reference_image = "undecodable"
            THEN /\ resp' = ErrorResponse(500, "Internal error")
                 /\ pc' = "done"
                 /\ UNCHANGED <<threshold, ref_face_id>>
            ELSE IF fid = NoFace
            THEN /\ resp' = ErrorResponse(400, "No face found in reference image")
                 /\ pc' = "done"
                 /\ UNCHANGED <<threshold, ref_face_id>>
            ELSE IF th = <<>>
            THEN /\ resp' = ErrorResponse(500, "Internal error")
                 /\ pc' = "done"
                 /\ ref_face_id' = fid
                 /\ UNCHANGED threshold
            ELSE /\ ref_face_id' = fid
                 /\ threshold' = th[1]
                 /\ pc' = "cf_resolve"
                 /\ UNCHANGED resp
    /\ UNCHANGED <<cfg, COMPRE_VERIFICATION_SERVICE, handles, cropped_faces_data,
                   comparison_results, calls>>
    /\ UNCHANGED <<stagingVars, extractVars, raceVars>>

\* Lines 286-326: the three target channels, and the 400 for none.
compare_faces_Resolve ==
    /\ pc = "cf_resolve"
    /\ LET res == ResolveTargets(req)
       IN  IF res.raised
           THEN /\ resp' = ErrorResponse(500, "Internal error")
                /\ pc' = "done"
                /\ UNCHANGED cropped_faces_data
           ELSE IF res.data = <<>>
           THEN /\ resp' = ErrorResponse(400, "No cropped faces provided")
                /\ pc' = "done"
                /\ cropped_faces_data' = res.data
           ELSE /\ cropped_faces_data' = res.data
                /\ pc' = "cf_loop"
                /\ UNCHANGED resp
    /\ UNCHANGED <<cfg, COMPRE_VERIFICATION_SERVICE, handles, req, threshold,
                   ref_face_id, comparison_results, calls>>
    /\ UNCHANGED <<stagingVars, extractVars, raceVars>>

\* Lines 331-385: one iteration of the comparison loop.
compare_faces_CompareOne ==
    /\ pc = "cf_loop"
    /\ ~LoopDone(comparison_results, cropped_faces_data)
    /\ LET idx == Len(comparison_results) + 1
           face_data == cropped_faces_data[idx]
       IN  \E da \in DetectAnswers, va \in VerifyAnswers :
            LET raised == DecodeRaises(face_data)
                fid == IF raised THEN NoFace ELSE detect_face_id(da)
                vr == IF fid = NoFace THEN NoVerify ELSE verify_face_ids(va)
            IN  /\ comparison_results' =
                      Append(comparison_results,
                             CloudOutcome(idx, face_data, fid, vr, threshold))
                /\ calls' = Append(calls,
                      [raised |-> raised, face_id |-> fid, verify_result |-> vr])
    /\ UNCHANGED <<cfg, COMPRE_VERIFICATION_SERVICE, handles, pc, req, threshold,
                   ref_face_id, cropped_faces_data, resp>>
    /\ UNCHANGED <<stagingVars, extractVars, raceVars>>

\* Lines 387-413: aggregate and answer.
compare_faces_Respond ==
    /\ pc = "cf_loop"
    /\ LoopDone(comparison_results, cropped_faces_data)
    /\ resp' = ComparisonResponse(comparison_results,
                                  Len(cropped_faces_data), threshold)
    /\ pc' = "done"
    /\ UNCHANGED <<cfg, COMPRE_VERIFICATION_SERVICE, handles, req, threshold,
                   ref_face_id, cropped_faces_data, comparison_results, calls>>
    /\ UNCHANGED <<stagingVars, extractVars, raceVars>>

\* -------------------------------------------------------- CompreFace helpers
\* NeedsInit with the presence check lost.
NeedsInitAlways(service) == TRUE

\* Line 135: the presence check guarding the initializer.
NeedsInit(service) == service = 0

\* get_compreface_verification run without interruption. initOk is whether
\* CompreFace(...).init_face_verification(...) returns rather than raises.
get_compreface_verification(initOk) ==
    IF ~cfg.sdk \/ ~cfg.key
    THEN [ret |-> 0, service |-> COMPRE_VERIFICATION_SERVICE, handles |-> handles]
    ELSE IF NeedsInit(COMPRE_VERIFICATION_SERVICE)
    THEN IF initOk
         THEN [ret |-> handles + 1, service |-> handles + 1,
               handles |-> handles + 1]
         ELSE [ret |-> 0, service |-> COMPRE_VERIFICATION_SERVICE,
               handles |-> handles]
    ELSE [ret |-> COMPRE_VERIFICATION_SERVICE,
          service |-> COMPRE_VERIFICATION_SERVICE, handles |-> handles]

\* What verification.verify answers. raised = TRUE is an exception (backend
\* unreachable, or a payload the extraction cannot read). Otherwise the
\* mapping `result` the extraction reads: match, verified and is_match are
\* "absent", "true" or "false"; similarity and confidence are <<>> when
\* absent and <<c>> otherwise.
CompreResult(m, v, i, s, c) ==
    [raised |-> FALSE, match |-> m, verified |-> v, is_match |-> i,
     similarity |-> s, confidence |-> c]

CompreRaised ==
    [raised |-> TRUE, match |-> "absent", verified |-> "absent",
     is_match |-> "absent", similarity |-> <<>>, confidence |-> <<>>]

CompreAnswers ==
    {CompreRaised,
     CompreResult("absent", "absent", "absent", <<85000>>, <<>>),
     CompreResult("absent", "absent", "absent", <<79996>>, <<>>),
     CompreResult("absent", "absent", "absent", <<>>, <<85000>>),
     CompreResult("true", "absent", "absent", <<79996>>, <<>>),
     CompreResult("false", "absent", "absent", <<85000>>, <<>>),
     CompreResult("false", "absent", "absent", <<79996>>, <<>>),
     CompreResult("absent", "true", "absent", <<79996>>, <<>>),
     CompreResult("absent", "absent", "false", <<85000>>, <<>>)}

\* Lines 539-552: the match a verify result is given.
CompreMatch(result, th) ==
    LET is_match == \/ result.match = "true"
                    \/ result.verified = "true"
                    \/ result.is_match = "true"
        similarity == IF result.similarity # <<>>
                      THEN result.similarity ELSE result.confidence
        confidence == IF similarity = <<>> THEN 0 ELSE similarity[1]
        meets_threshold == confidence >= th
    IN  [confidence |-> confidence,
         meets_threshold |-> meets_threshold,
         match |-> IF ~is_match THEN meets_threshold ELSE is_match]

\* The outcome of one pass through the loop body of compare_faces_compreface.
CompreOutcome(idx, face_data, answer, th) ==
    IF DecodeRaises(face_data) \/ answer.raised
    THEN [face_index |-> idx, face_found |-> FALSE, match |-> FALSE,
          confidence |-> 0, error |-> "exception"]
    ELSE LET m == CompreMatch(answer, th)
         IN  [face_index |-> idx, face_found |-> TRUE, match |-> m.match,
              confidence |-> Round4(m.confidence),
              meets_threshold |-> m.meets_threshold,
              raw_result |-> answer]

\* A fresh UUID-named file of compreface_temp.
TempFile(prefix, idx, n) == [prefix |-> prefix, idx |-> idx, uuid |-> n]

\* Lines 578-583: os.remove over the list in order; failAt = 0 is no failure,
\* failAt = k is os.remove raising on the k-th entry, which ends the loop.
RemoveAll(dir, files, failAt) ==
    dir \ {files[k] : k \in {j \in 1..Len(files) : failAt = 0 \/ j < failAt}}

\* --------------------------------------------------- compare_faces_compreface
\* Lines 440-466: the handle, the reference image staged to disk, threshold.
compare_faces_compreface_Begin(r) ==
    /\ pc = "idle"
    \* the reference bytes are staged as they are, never decoded
    /\ r.reference_image # "undecodable"
    /\ req' = r
    /\ \E initOk \in BOOLEAN :
        LET g == get_compreface_verification(initOk)
            th == ParseThreshold(r.threshold)
            ref == TempFile("ref", 0, uuid + 1)
        IN  /\ COMPRE_VERIFICATION_SERVICE' = g.service
            /\ handles' = g.handles
            /\ IF g.ret = 0
               THEN /\ resp' = ErrorResponse(500, "CompreFace verification is not configured or SDK is missing.")
                    /\ pc' = "done"
                    /\ UNCHANGED <<threshold, ref_temp_path, tempDir, created, uuid>>
               ELSE IF r.reference_image = "none"
               THEN /\ resp' = ErrorResponse(400, "Missing 'reference_image' in form-data")
                    /\ pc' = "done"
                    /\ UNCHANGED <<threshold, ref_temp_path, tempDir, created, uuid>>
               ELSE /\ ref_temp_path' = <<ref>>
                    /\ tempDir' = tempDir \cup {ref}
                    /\ created' = created \cup {ref}
                    /\ uuid' = uuid + 1
                    /\ IF th = <<>>
                       THEN /\ resp' = ErrorResponse(500, "Internal error")
                            /\ pc' = "done"
                            /\ UNCHANGED threshold
                       ELSE /\ threshold' = th[1]
                            /\ pc' = "cpf_resolve"
                            /\ UNCHANGED resp
    /\ UNCHANGED <<cfg, ref_face_id, cropped_faces_data, comparison_results,
                   calls, temp_files_to_cleanup, remove_failed>>
    /\ UNCHANGED <<extractVars, raceVars>>

\* Lines 468-509: the three target channels, the 400 for none, and the
\* cleanup list started with the reference file.
compare_faces_compreface_Resolve ==
    /\ pc = "cpf_resolve"
    /\ LET res == ResolveTargets(req)
       IN  IF res.raised
           THEN /\ resp' = ErrorResponse(500, "Internal error")
                /\ pc' = "done"
                /\ UNCHANGED <<cropped_faces_data, temp_files_to_cleanup>>
           ELSE IF res.data = <<>>
           THEN /\ resp' = ErrorResponse(400, "No target faces provided")
                /\ pc' = "done"
                /\ cropped_faces_data' = res.data
                /\ UNCHANGED temp_files_to_cleanup
           ELSE /\ cropped_faces_data' = res.data
                /\ temp_files_to_cleanup' = ref_temp_path
                /\ pc' = "cpf_loop"
                /\ UNCHANGED resp
    /\ UNCHANGED <<cfg, COMPRE_VERIFICATION_SERVICE, handles, req, threshold,
                   ref_face_id, comparison_results, calls, ref_temp_path,
                   tempDir, created, uuid, remove_failed>>
    /\ UNCHANGED <<extractVars, raceVars>>

\* Lines 511-575: one iteration of the comparison loop.
compare_faces_compreface_CompareOne ==
    /\ pc = "cpf_loop"
    /\ ~LoopDone(comparison_results, cropped_faces_data)
    /\ LET idx == Len(comparison_results) + 1
           face_data == cropped_faces_data[idx]
           staged == face_data.type # "path" /\ ~DecodeRaises(face_data)
           target == TempFile("target", idx, uuid + 1)
       IN  /\ IF staged
              THEN /\ tempDir' = tempDir \cup {target}
                   /\ created' = created \cup {target}
                   /\ temp_files_to_cleanup' = Append(temp_files_to_cleanup, target)
                   /\ uuid' = uuid + 1
              ELSE UNCHANGED <<tempDir, created, temp_files_to_cleanup, uuid>>
           /\ \E answer \in CompreAnswers :
                LET got == IF DecodeRaises(face_data) THEN CompreRaised ELSE answer
                IN  /\ comparison_results' =
                          Append(comparison_results,
                                 CompreOutcome(idx, face_data, got, threshold))
                    /\ calls' = Append(calls, got)
    /\ UNCHANGED <<cfg, COMPRE_VERIFICATION_SERVICE, handles, pc, req,
                   threshold, ref_face_id, cropped_faces_data, resp,
                   ref_temp_path, remove_failed>>
    /\ UNCHANGED <<extractVars, raceVars>>

\* Lines 577-615: best-effort cleanup, aggregate and answer.
compare_faces_compreface_Respond ==
    /\ pc = "cpf_loop"
    /\ LoopDone(comparison_results, cropped_faces_data)
    /\ \E failAt \in 0..Len(temp_files_to_cleanup) :
        /\ tempDir' = RemoveAll(tempDir, temp_files_to_cleanup, failAt)
        /\ remove_failed' = (failAt # 0)
    /\ resp' = ComparisonResponse(comparison_results,
                                  Len(cropped_faces_data), threshold)
    /\ pc' = "done"
    /\ UNCHANGED <<cfg, COMPRE_VERIFICATION_SERVICE, handles, req, threshold,
                   ref_face_id, cropped_faces_data, comparison_results, calls,
                   temp_files_to_cleanup, ref_temp_path, created, uuid>>
    /\ UNCHANGED <<extractVars, raceVars>>

\* ---------------------------------------------------------------- extract_kyc
\* The uploaded part: absent, an image, or bytes Image.open rejects; a part
\* that is present carries its filename.
ExtractRequests ==
    {[route |-> "extract_kyc", file |-> "none", filename |-> ""]}
    \cup {[route |-> "extract_kyc", file |-> f, filename |-> n] :
            f \in {"ok", "undecodable"}, n \in {"id.jpg", "scan.png"}}

\* os.path.splitext(file.filename or "image")[0].
Basename(filename) ==
    IF filename = "id.jpg" THEN "id"
    ELSE IF filename = "scan.png" THEN "scan"
    ELSE "image"

\* Face rectangles the detection backend returns; "bad" is an entry the
\* loop body cannot crop and encode (no faceRectangle, or an empty box).
Rects == {"r1", "r2", "bad"}

\* What requests.post to the detect endpoint gives extract_kyc: an exception,
\* a non-200 status, or a list of face rectangles. Without FACE_ENDPOINT
\* the URL has no scheme and requests raises; without FACE_KEY the backend
\* refuses the call.
ExtractDetectAnswers ==
    IF cfg.face
    THEN {[kind |-> "exception", rects |-> <<>>], [kind |-> "non200", rects |-> <<>>]}
         \cup {[kind |-> "faces", rects |-> rs] : rs \in SeqsUpTo(Rects, MaxFaces)}
    ELSE {[kind |-> "exception", rects |-> <<>>], [kind |-> "non200", rects |-> <<>>]}

\* A file of output_faces: <base>_enhanced.jpg (idx 0) or <base>_face_<idx>.jpg.
OutputFile(base, kind, idx) == [base |-> base, kind |-> kind, idx |-> idx]

\* FaceEntry with the numbering started at 0.
FaceEntryFromZero(base, idx, rect) ==
    [filename |-> OutputFile(base, "face", idx - 1),
     saved_path |-> OutputFile(base, "face", idx - 1),
     image_base64 |-> rect]

\* Lines 213-227: the manifest entry of the idx-th face; image_base64 is the
\* encoded crop of the rectangle, named here by the rectangle.
FaceEntry(base, idx, rect) ==
    [filename |-> OutputFile(base, "face", idx),
     saved_path |-> OutputFile(base, "face", idx),
     image_base64 |-> rect]

\* Lines 156-179: the upload and the detection call.
extract_kyc_Begin(r) ==
    /\ pc = "idle"
    /\ req' = r
    /\ \E answer \in ExtractDetectAnswers :
        IF r.file = "none"
        THEN /\ resp' = ErrorResponse(400, "Upload image via form-data key 'file'")
             /\ pc' = "done"
             /\ UNCHANGED faces
        ELSE IF answer.kind = "exception"
        THEN /\ resp' = ErrorResponse(500, "Internal error")
             /\ pc' = "done"
             /\ UNCHANGED faces
        ELSE IF answer.kind = "non200"
        THEN /\ resp' = ErrorResponse(500, "Face detection failed")
             /\ pc' = "done"
             /\ UNCHANGED faces
        ELSE IF answer.rects = <<>>
        THEN /\ resp' = ErrorResponse(404, "No face detected")
             /\ pc' = "done"
             /\ UNCHANGED faces
        ELSE /\ faces' = answer.rects
             /\ pc' = "ek_process"
             /\ UNCHANGED resp
    /\ UNCHANGED <<cfg, COMPRE_VERIFICATION_SERVICE, handles, outputDir,
                   face_results>>
    /\ UNCHANGED <<compareVars, stagingVars, raceVars>>

\* Lines 181-196: open and preprocess the image, save the enhanced image.
extract_kyc_Process ==
    /\ pc = "ek_process"
    /\ IF req.file = "undecodable"
       THEN /\ resp' = ErrorResponse(500, "Internal error")
            /\ pc' = "done"
            /\ UNCHANGED outputDir
       ELSE /\ outputDir' = outputDir
                              \cup {OutputFile(Basename(req.filename), "enhanced", 0)}
            /\ pc' = "ek_crop"
            /\ UNCHANGED resp
    /\ UNCHANGED <<cfg, COMPRE_VERIFICATION_SERVICE, handles, req, faces,
                   face_results>>
    /\ UNCHANGED <<compareVars, stagingVars, raceVars>>

\* Lines 199-227: one pass of the crop loop; an entry that cannot be cropped
\* raises to the handler's except clause.
extract_kyc_CropOne ==
    /\ pc = "ek_crop"
    /\ Len(face_results) < Len(faces)
    /\ LET idx == Len(face_results) + 1
           entry == FaceEntry(Basename(req.filename), idx, faces[idx])
       IN  IF faces[idx] = "bad"
           THEN /\ resp' = ErrorResponse(500, "Internal error")
                /\ pc' = "done"
                /\ UNCHANGED <<outputDir, face_results>>
           ELSE /\ outputDir' = outputDir \cup {entry.saved_path}
                /\ face_results' = Append(face_results, entry)
                /\ UNCHANGED <<pc, resp>>
    /\ UNCHANGED <<cfg, COMPRE_VERIFICATION_SERVICE, handles, req, faces>>
    /\ UNCHANGED <<compareVars, stagingVars, raceVars>>

\* Lines 229-238: the manifest.
extract_kyc_Respond ==
    /\ pc = "ek_crop"
    /\ Len(face_results) = Len(faces)
    /\ resp' = [status |-> 200, body |-> "manifest",
                original_file |-> req.filename,
                enhanced_image |-> OutputFile(Basename(req.filename), "enhanced", 0),
                faces |-> face_results]
    /\ pc' = "done"
    /\ UNCHANGED <<cfg, COMPRE_VERIFICATION_SERVICE, handles, req, faces,
                   outputDir, face_results>>
    /\ UNCHANGED <<compareVars, stagingVars, raceVars>>

\* ------------------------------- get_compreface_verification, step by step
\* Lines 127-135: the SDK and key checks and the presence check.
get_compreface_verification_Check(c) ==
    /\ cpc[c] = "idle"
    /\ overlapped' = (overlapped \/
                      \E d \in Callers \ {c} : cpc[d] \in {"init", "assign", "return"})
    /\ IF ~cfg.sdk \/ ~cfg.key
       THEN /\ cret' = [cret EXCEPT ![c] = <<0>>]
            /\ cpc' = [cpc EXCEPT ![c] = "done"]
       ELSE IF NeedsInit(COMPRE_VERIFICATION_SERVICE)
       THEN /\ cpc' = [cpc EXCEPT ![c] = "init"]
            /\ UNCHANGED cret
       ELSE /\ cpc' = [cpc EXCEPT ![c] = "return"]
            /\ UNCHANGED cret
    /\ UNCHANGED <<cfg, COMPRE_VERIFICATION_SERVICE, handles, cnew, pc, req, resp>>
    /\ UNCHANGED <<compareVars, stagingVars, extractVars>>

\* Lines 136-141: the initializer returns a new handle, or raises and the
\* call returns None.
get_compreface_verification_Init(c) ==
    /\ cpc[c] = "init"
    /\ \E initOk \in BOOLEAN :
        IF initOk
        THEN /\ handles' = handles + 1
             /\ cnew' = [cnew EXCEPT ![c] = handles + 1]
             /\ cpc' = [cpc EXCEPT ![c] = "assign"]
             /\ UNCHANGED cret
        ELSE /\ cret' = [cret EXCEPT ![c] = <<0>>]
             /\ cpc' = [cpc EXCEPT ![c] = "done"]
             /\ UNCHANGED <<handles, cnew>>
    /\ UNCHANGED <<cfg, COMPRE_VERIFICATION_SERVICE, overlapped, pc, req, resp>>
    /\ UNCHANGED <<compareVars, stagingVars, extractVars>>

\* Line 138: the assignment to the global.
get_compreface_verification_Assign(c) ==
    /\ cpc[c] = "assign"
    /\ COMPRE_VERIFICATION_SERVICE' = cnew[c]
    /\ cpc' = [cpc EXCEPT ![c] = "return"]
    /\ UNCHANGED <<cfg, handles, cnew, cret, overlapped, pc, req, resp>>
    /\ UNCHANGED <<compareVars, stagingVars, extractVars>>

\* Line 143: return the global.
get_compreface_verification_Return(c) ==
    /\ cpc[c] = "return"
    /\ cret' = [cret EXCEPT ![c] = <<COMPRE_VERIFICATION_SERVICE>>]
    /\ cpc' = [cpc EXCEPT ![c] = "done"]
    /\ UNCHANGED <<cfg, COMPRE_VERIFICATION_SERVICE, handles, cnew, overlapped,
                   pc, req, resp>>
    /\ UNCHANGED <<compareVars, stagingVars, extractVars>>

\* ------------------------------------------------------------ specifications
Init ==
    /\ cfg \in Configs
    /\ COMPRE_VERIFICATION_SERVICE = 0
    /\ pc = "idle"
    /\ req = NoRequest
    /\ threshold = 0
    /\ ref_face_id = NoFace
    /\ cropped_faces_data = <<>>
    /\ comparison_results = <<>>
    /\ calls = <<>>
    /\ temp_files_to_cleanup = <<>>
    /\ ref_temp_path = <<>>
    /\ tempDir = {}
    /\ created = {}
    /\ uuid = 0
    /\ outputDir = {}
    /\ faces = <<>>
    /\ face_results = <<>>
    /\ resp = NoResponse
    /\ cpc = [c \in Callers |-> "idle"]
    /\ cnew = [c \in Callers |-> 0]
    /\ cret = [c \in Callers |-> <<>>]
    /\ handles = 0
    /\ overlapped = FALSE
    /\ remove_failed = FALSE

\* One request, handled from its arrival to its response.
Next ==
    \/ pc = "idle" /\ \E r \in Requests("compare_faces") : compare_faces_Begin(r)
    \/ compare_faces_Resolve
    \/ compare_faces_CompareOne
    \/ compare_faces_Respond
    \/ pc = "idle" /\ \E r \in Requests("compare_faces_compreface") :
                        compare_faces_compreface_Begin(r)
    \/ compare_faces_compreface_Resolve
    \/ compare_faces_compreface_CompareOne
    \/ compare_faces_compreface_Respond
    \/ pc = "idle" /\ \E r \in ExtractRequests : extract_kyc_Begin(r)
    \/ extract_kyc_Process
    \/ extract_kyc_CropOne
    \/ extract_kyc_Respond

Spec == Init /\ [][Next]_vars

\* Calls of get_compreface_verification that may overlap.
NextRace ==
    \E c \in Callers :
        \/ get_compreface_verification_Check(c)
        \/ get_compreface_verification_Init(c)
        \/ get_compreface_verification_Assign(c)
        \/ get_compreface_verification_Return(c)

SpecRace == Init /\ [][NextRace]_vars

\* -------------------------------------------------------------------- claims
ComparisonRoutes == {"compare_faces", "compare_faces_compreface"}

\* The threshold the request asks for: its form field, 0.8 when absent.
RequestThreshold == IF req.threshold = "absent" THEN DefaultThreshold ELSE 90000

\* The handler has accepted the reference image and parsed its parameters.
ReferenceAccepted == req.route \in ComparisonRoutes /\ threshold # 0

\* The handler has run its three target loops to their end.
ResolutionDone ==
    /\ ReferenceAccepted
    /\ pc \notin {"cf_resolve", "cpf_resolve"}
    /\ req.face_paths.kind # "scalar"

IsOk200 == pc = "done" /\ resp.status = 200 /\ req.route \in ComparisonRoutes

\* The targets a request names, channel by channel.
ExpectedPaths ==
    LET kept == SelectSeq(req.face_paths.items, LAMBDA p : p \in ExistingPaths)
    IN  [i \in 1..Len(kept) |-> [type |-> "path", value |-> kept[i]]]

ExpectedBase64 ==
    LET kept == SelectSeq(req.cropped_faces, LAMBDA b : b # "")
    IN  [i \in 1..Len(kept) |-> [type |-> "base64", value |-> kept[i]]]

ExpectedUploads ==
    LET kept == SelectSeq(req.cropped_face_files, LAMBDA u : u.filename # "")
    IN  [i \in 1..Len(kept) |-> [type |-> "bytes", value |-> kept[i].bytes]]

\* C1: in /compare_faces, a target whose detection and verify calls both
\* succeeded has match = TRUE exactly when the backend said isIdentical and
\* its raw confidence is at least the request's threshold (0.8 by default).
C1_MatchRule ==
    req.route = "compare_faces" =>
        /\ \A i \in 1..Len(comparison_results) :
            (calls[i].face_id # NoFace /\ calls[i].verify_result.ok) =>
                (comparison_results[i].match <=>
                    (calls[i].verify_result.isIdentical
                     /\ calls[i].verify_result.confidence >= RequestThreshold))
        /\ IsOk200 => resp.comparisons = comparison_results

\* C1 witness: threshold 0.9, verify says isIdentical with confidence 0.85,
\* and the face is reported as no match.
C1_Witness ==
    /\ IsOk200 /\ req.route = "compare_faces" /\ req.threshold = "0.9"
    /\ \E i \in 1..Len(resp.comparisons) :
        /\ calls[i].verify_result.ok
        /\ calls[i].verify_result.isIdentical
        /\ calls[i].verify_result.confidence = 85000
        /\ ~resp.comparisons[i].match

\* C2: in /compare_faces_compreface, a result that carries a match, verified
\* or is_match field gets that field's value as its match; only a result with
\* none of them gets confidence >= threshold.
C2_ExplicitFieldDecides ==
    req.route = "compare_faces_compreface" =>
        \A i \in 1..Len(comparison_results) :
            LET o == comparison_results[i]
                r == calls[i]
                given == {r.match, r.verified, r.is_match} \ {"absent"}
                score == IF r.similarity # <<>> THEN r.similarity ELSE r.confidence
            IN  o.face_found =>
                    IF given # {}
                    THEN o.match = ("true" \in given)
                    ELSE o.match = (score # <<>> /\ score[1] >= RequestThreshold)

\* C3: the resolved targets are the existing face_paths entries, then the
\* non-empty cropped_faces entries, then the cropped_face_files uploads, each
\* channel in its input order; the request is refused with 400 exactly when
\* that sequence is empty.
C3_ResolutionOrder ==
    ResolutionDone =>
        /\ cropped_faces_data = ExpectedPaths \o ExpectedBase64 \o ExpectedUploads
        /\ pc \in {"cf_loop", "cpf_loop"} => cropped_faces_data # <<>>
        /\ pc = "done" => (resp.status = 400 <=> cropped_faces_data = <<>>)

\* C3 witness: a request whose targets come from two channels, resolved.
C3_Witness ==
    /\ ResolutionDone
    /\ Len(cropped_faces_data) = 2
    /\ cropped_faces_data[1].type = "base64"
    /\ cropped_faces_data[2].type = "bytes"
    /\ Len(req.cropped_face_files) = 1

C5_FailuresIsolated ==
    (ReferenceAccepted /\ pc = "done" /\ cropped_faces_data # <<>>) =>
        /\ resp.status = 200
        /\ Len(resp.comparisons) = Len(cropped_faces_data)
        /\ \A i \in 1..Len(resp.comparisons) :
            /\ i <= Len(calls)
            /\ resp.comparisons[i].face_index = i
            /\ resp.comparisons[i] =
                 IF req.route = "compare_faces"
                 THEN CloudOutcome(i, cropped_faces_data[i], calls[i].face_id,
                                   calls[i].verify_result, RequestThreshold)
                 ELSE CompreOutcome(i, cropped_faces_data[i], calls[i],
                                    RequestThreshold)

\* C5 witness: the first target fails, the second is compared and matches.
C5_Witness ==
    /\ IsOk200
    /\ Len(resp.comparisons) = 2
    /\ ~resp.comparisons[1].face_found
    /\ resp.comparisons[2].face_found /\ resp.comparisons[2].match

\* C6: when /compare_faces_compreface has answered, whatever the status, no
\* staging file the request wrote is left in compreface_temp, provided
\* os.remove did not fail.
C6_StagingFilesDeleted ==
    (req.route = "compare_faces_compreface" /\ pc = "done" /\ ~remove_failed) =>
        created \cap tempDir = {}

\* C7: a route whose configuration is missing answers every request with a
\* 500-class status.
C7_MissingConfigIs500 ==
    LET missing ==
            \/ req.route \in {"extract_kyc", "compare_faces"} /\ ~cfg.face
            \/ req.route = "compare_faces_compreface" /\ (~cfg.sdk \/ ~cfg.key)
    IN  (pc = "done" /\ missing) => resp.status >= 500

\* Calls that returned a handle, and the handles they returned.
ReturnedHandles == {cret[c][1] : c \in {d \in Callers : cret[d] \notin {<<>>, <<0>>}}}

\* C8 as stated: over any interleaving of calls the initializer creates at
\* most one handle and every call that returns a handle returns that one.
C8_CreatedAtMostOnce ==
    /\ handles <= 1
    /\ Cardinality(ReturnedHandles) <= 1

\* C8 amended: calls that do not overlap create the handle at most once and
\* all return that handle; each call runs the initializer at most once, every
\* handle returned or stored was created by the initializer, and while no
\* initialization has succeeded the global stays unset.
C8_CreatedOncePerSequentialCalls ==
    /\ ~overlapped => (handles <= 1 /\ Cardinality(ReturnedHandles) <= 1)
    /\ handles = Cardinality({c \in Callers : cnew[c] # 0})
    /\ COMPRE_VERIFICATION_SERVICE \in 0..handles
    /\ ReturnedHandles \subseteq {cnew[c] : c \in Callers} \ {0}
    /\ \A c \in Callers :
        (cpc[c] = "done" /\ cnew[c] = 0 /\ handles = 0) =>
            (cret[c] = <<0>> /\ COMPRE_VERIFICATION_SERVICE = 0)

\* C8 witness: three calls one after the other; the first initialization
\* fails, the second creates the handle, the third reuses it.
C8_Witness ==
    /\ ~overlapped
    /\ handles = 1
    /\ \E c, d, e \in Callers :
        /\ cret[c] = <<0>> /\ cnew[c] = 0
        /\ cret[d] = <<1>> /\ cnew[d] = 1
        /\ e # d /\ cret[e] = <<1>> /\ cnew[e] = 0

\* Sum of the confidences of the found outcomes among the first k.
RECURSIVE SumFound(_, _)
SumFound(rs, k) ==
    IF k = 0 THEN 0
    ELSE (IF rs[k].face_found THEN rs[k].confidence ELSE 0) + SumFound(rs, k - 1)

\* C9: in a 200 answer average_confidence is the mean, rounded to 4 places,
\* of confidence over exactly the outcomes with face_found = TRUE: a target
\* whose verify call failed is found with confidence 0 and counts, a target
\* with no detected face does not; with no found outcome the average is 0
\* and overall_match is FALSE.
C9_AverageOverFound ==
    IsOk200 =>
        LET rs == resp.comparisons
            found == {i \in 1..Len(rs) : rs[i].face_found}
            n == Cardinality(found)
            total == SumFound(rs, Len(rs))
            diff == n * resp.average_confidence - total
        IN  /\ resp.summary.faces_found = n
            /\ IF n = 0
               THEN resp.average_confidence = 0 /\ ~resp.overall_match
               ELSE 2 * diff <= n /\ -2 * diff <= n
            /\ req.route = "compare_faces" =>
                \A i \in 1..Len(rs) :
                    /\ (calls[i].face_id # NoFace /\ ~calls[i].verify_result.ok)
                          => (rs[i].face_found /\ rs[i].confidence = 0)
                    /\ calls[i].face_id = NoFace => ~rs[i].face_found

\* C9 witness: one target whose verify call failed and one compared at 0.85
\* average 0.425.
C9_Witness ==
    /\ IsOk200 /\ req.route = "compare_faces"
    /\ Len(resp.comparisons) = 2
    /\ calls[1].face_id # NoFace /\ ~calls[1].verify_result.ok
    /\ resp.comparisons[2].face_found /\ resp.comparisons[2].confidence = 8500
    /\ resp.average_confidence = 4250

\* C10: in a 200 answer overall_match is the OR of match over all outcomes,
\* found or not, that is overall_match holds exactly when summary.matches
\* is at least 1.
C10_OverallMatchIsAny ==
    IsOk200 =>
        /\ resp.overall_match <=>
              \E i \in 1..Len(resp.comparisons) : resp.comparisons[i].match
        /\ resp.overall_match <=> resp.summary.matches >= 1

\* C10 witness: an answer holding an outcome that was not found beside one
\* that matches.
C10_Witness ==
    /\ IsOk200
    /\ resp.overall_match
    /\ \E i, j \in 1..Len(resp.comparisons) :
        ~resp.comparisons[i].face_found /\ resp.comparisons[j].match

\* C11: every outcome either comparison handler emits with face_found = FALSE
\* has confidence 0.0 and match = FALSE, whichever path produced it (no face
\* detected, a decode exception, a verify exception).
C11_NotFoundIsZero ==
    req.route \in ComparisonRoutes =>
        /\ \A i \in 1..Len(comparison_results) :
            ~comparison_results[i].face_found =>
                (comparison_results[i].confidence = 0
                 /\ ~comparison_results[i].match)
        /\ IsOk200 =>
            \A i \in 1..Len(resp.comparisons) :
                ~resp.comparisons[i].face_found =>
                    (resp.comparisons[i].confidence = 0
                     /\ ~resp.comparisons[i].match)

\* C11 witness: /compare_faces_compreface answers 200 with a target whose
\* verify call raised beside a target whose base64 text did not decode.
C11_Witness ==
    /\ IsOk200 /\ req.route = "compare_faces_compreface"
    /\ Len(resp.comparisons) = 2
    /\ cropped_faces_data[1].type = "base64" /\ DecodeRaises(cropped_faces_data[1])
    /\ ~DecodeRaises(cropped_faces_data[2]) /\ calls[2].raised
    /\ ~resp.comparisons[1].face_found /\ ~resp.comparisons[2].face_found
    /\ ~resp.overall_match

\* C12: in a 200 answer summary.matches is the number of outcomes with
\* match = TRUE, counted over all outcomes whatever their face_found, and
\* summary.total_faces is the number of outcomes.
C12_SummaryCounts ==
    IsOk200 =>
        /\ resp.summary.matches =
              Cardinality({i \in 1..Len(resp.comparisons) : resp.comparisons[i].match})
        /\ resp.summary.total_faces = Len(resp.comparisons)

\* C12 witness: two outcomes, one not found and one matching: matches is 1
\* and total_faces is 2.
C12_Witness ==
    /\ IsOk200
    /\ Len(resp.comparisons) = 2
    /\ ~resp.comparisons[1].face_found
    /\ resp.comparisons[2].match
    /\ resp.summary.matches = 1
    /\ resp.summary.total_faces = 2
    /\ resp.summary.faces_found = 1

\* C13: /extract_kyc runs detect, preprocess, save the enhanced image, then
\* crop and save each face, in that order: nothing is in output_faces on the
\* 400 (no file), 500 (detection failed) and 404 (no face) answers, no face
\* file is written before the enhanced image, and a 200 manifest has one
\* entry per detected rectangle, in detection order, named
\* <basename>_face_1 .. <basename>_face_n.
C13_ExtractLinear ==
    req.route = "extract_kyc" =>
        LET base == Basename(req.filename)
            enhanced == OutputFile(base, "enhanced", 0)
        IN  /\ (pc = "done" /\ (resp.status \in {400, 404}
                                \/ resp.body = "Face detection failed"))
                  => outputDir = {}
            /\ outputDir # {} => (faces # <<>> /\ enhanced \in outputDir)
            /\ \A i \in 1..Len(faces) :
                 OutputFile(base, "face", i) \in outputDir =>
                    \A j \in 1..i : OutputFile(base, "face", j) \in outputDir
            /\ (pc = "done" /\ resp.status = 200) =>
                 /\ Len(resp.faces) = Len(faces)
                 /\ resp.enhanced_image = enhanced
                 /\ \A i \in 1..Len(faces) :
                      /\ resp.faces[i].filename = OutputFile(base, "face", i)
                      /\ resp.faces[i].saved_path \in outputDir
                      /\ resp.faces[i].image_base64 = faces[i]
                 /\ outputDir = {enhanced}
                       \cup {OutputFile(base, "face", i) : i \in 1..Len(faces)}

\* C13 witness: a photo with two detected faces answered 200 with two
\* entries, in the order detection returned them.
C13_Witness ==
    /\ req.route = "extract_kyc" /\ pc = "done" /\ resp.status = 200
    /\ faces = <<"r2", "r1">>
    /\ Len(resp.faces) = 2
    /\ resp.faces[1].image_base64 = "r2"
    /\ resp.faces[2].filename = OutputFile("id", "face", 2)

====
